---- MODULE Spec2Model ----
(***************************************************************************)
(* FileSystem (src/FileSystem/FileSystem.py): a storage manager over two   *)
(* root directories with optional Fernet encryption.                       *)
(*                                                                         *)
(* Representation.                                                         *)
(*   - a str used as a file name is a tuple of one-character strings,      *)
(*     "/" being the path separator: <<"s","/","a",".","t","x","t">>;      *)
(*   - a str used as content is a tuple of code points (integers);         *)
(*   - a bytes value, and the content of a file on disk, is a tuple of     *)
(*     byte values (integers 0..255);                                      *)
(*   - a Fernet token is url-safe base64 text that only the holder of the  *)
(*     key can produce.  It is modelled symbolically: one symbol           *)
(*     TokenHead + k for the part that authenticates key k, then one       *)
(*     symbol TokenBody + b for each plaintext byte b.  These symbols      *)
(*     stand for base64 characters (ASCII), are outside the byte range,    *)
(*     and no ordinary content can spell them.                             *)
(***************************************************************************)
EXTENDS Integers, Sequences, FiniteSets, TLC

VARIABLES
    dirs,          \* the directories of the file system: a set of absolute paths
    files,         \* the regular files: absolute path -> bytes on disk
    storage_temp,  \* self.storage_temp (self.storage_data is fixed, see below)
    key,           \* self.key of the live instance, the key self.cipher is bound to
    key0,          \* the key the first construction established
    nkeys,         \* how many keys (and uuid4 names) have been generated so far
    nops,          \* how many operations have been called
    op,            \* the last call: operation and arguments
    ret,           \* what the last call returned (or raised)
    saved          \* history: the last save_file that returned True, for as long as
                   \* the file system and the instance have stayed as it left them

vars == <<dirs, files, storage_temp, key, key0, nkeys, nops, op, ret, saved>>

-----------------------------------------------------------------------------
(* str helpers                                                             *)

StartsWith(s, pre) == Len(s) >= Len(pre) /\ SubSeq(s, 1, Len(pre)) = pre

EndsWith(s, suf) ==
    Len(s) >= Len(suf) /\ SubSeq(s, Len(s) - Len(suf) + 1, Len(s)) = suf

\* str.lower(), on the letters the model's names are written with
LowerChar(c) ==
    CASE c = "A" -> "a"
      [] c = "B" -> "b"
      [] c = "I" -> "i"
      [] c = "K" -> "k"
      [] c = "N" -> "n"
      [] c = "T" -> "t"
      [] c = "X" -> "x"
      [] OTHER -> c

Lower(s) == [i \in 1..Len(s) |-> LowerChar(s[i])]

\* frag in s
Contains(s, frag) ==
    \E i \in 0..(Len(s) - Len(frag)) : SubSeq(s, i + 1, i + Len(frag)) = frag

\* the concatenation of the tuples of ss, by halves
RECURSIVE Concat(_)
Concat(ss) ==
    IF ss = <<>> THEN <<>>
    ELSE IF Len(ss) = 1 THEN ss[1]
    ELSE LET h == Len(ss) \div 2
         IN  Concat(SubSeq(ss, 1, h)) \o Concat(SubSeq(ss, h + 1, Len(ss)))

-----------------------------------------------------------------------------
(* UTF-8 (str.encode("utf-8"), bytes.decode("utf-8"), open(..., encoding=   *)
(* "utf-8")) for code points below 0x800, and the token symbols, which are *)
(* ASCII and so encode to themselves.                                      *)

TokenHead == 1000
TokenBody == 2000

EncodeChar(c) ==
    IF c < 128 \/ c >= TokenHead THEN <<c>>
    ELSE <<192 + (c \div 64), 128 + (c % 64)>>

Utf8Encode(s) == Concat([i \in 1..Len(s) |-> EncodeChar(s[i])])

IsSingle(c) == c < 128 \/ c >= TokenHead
IsLead(c) == c >= 194 /\ c <= 223
IsCont(c) == c >= 128 /\ c <= 191

\* Two-byte sequences are the only multi-byte ones here: the bytes are well
\* formed when every lead byte has its continuation byte and every
\* continuation byte its lead.  [ok |-> FALSE] stands for UnicodeDecodeError.
Utf8Decode(b) ==
    LET n == Len(b)
        wellFormed ==
            \A i \in 1..n :
                \/ IsSingle(b[i])
                \/ IsLead(b[i]) /\ i < n /\ IsCont(b[i + 1])
                \/ IsCont(b[i]) /\ i > 1 /\ IsLead(b[i - 1])
        at == [i \in 1..n |->
                  IF IsSingle(b[i]) THEN <<b[i]>>
                  ELSE IF IsLead(b[i]) THEN <<(b[i] - 192) * 64 + (b[i + 1] - 128)>>
                  ELSE <<>>]
    IN  IF wellFormed THEN [ok |-> TRUE, s |-> Concat(at)]
        ELSE [ok |-> FALSE, s |-> <<>>]

\* Reading in text mode with the default newline=None: "\r\n" and "\r" become
\* "\n": a "\r" becomes "\n" and a "\n" that follows a "\r" goes.
UniversalNewlines(s) ==
    Concat([i \in 1..Len(s) |->
               IF s[i] = 13 THEN <<10>>
               ELSE IF s[i] = 10 /\ i > 1 /\ s[i - 1] = 13 THEN <<>>
               ELSE <<s[i]>>])

-----------------------------------------------------------------------------
(* Fernet                                                                  *)

\* The bytes of key k, as Fernet.generate_key() returns them and as the key file holds them.
KeyBytes(k) == <<500 + k>>

\* Fernet(key): a key is valid when it is 32 url-safe base64-encoded bytes.
ValidKey(b) == Len(b) = 1 /\ b[1] > 500 /\ b[1] < 600

KeyOf(b) == b[1] - 500

\* Fernet.encrypt: the token of data under key k (the random IV and the timestamp are abstracted)
Seal(data) == [i \in 1..Len(data) |-> TokenBody + data[i]]

Encrypt(k, data) == <<TokenHead + k>> \o Seal(data)

Unseal(t) == [i \in 1..Len(t) |-> t[i] - TokenBody]

\* Fernet.decrypt: [ok |-> FALSE] stands for InvalidToken
Decrypt(k, token) ==
    IF /\ Len(token) >= 1
       /\ token[1] = TokenHead + k
       /\ \A i \in 2..Len(token) : token[i] >= TokenBody
    THEN [ok |-> TRUE, data |-> Unseal(Tail(token))]
    ELSE [ok |-> FALSE, data |-> <<>>]

\* b"E::" and "E::"
Marker == <<69, 58, 58>>

-----------------------------------------------------------------------------
(* Structured values.  A dict keeps its keys in insertion order (k) beside  *)
(* their values (e); a key is a str or an int (JStr or JNum).               *)

JNull == [j |-> "null", s |-> <<>>, n |-> 0, k |-> <<>>, e |-> <<>>]
JStr(s) == [j |-> "str", s |-> s, n |-> 0, k |-> <<>>, e |-> <<>>]
JNum(n) == [j |-> "num", s |-> <<>>, n |-> n, k |-> <<>>, e |-> <<>>]
JList(e) == [j |-> "list", s |-> <<>>, n |-> 0, k |-> <<>>, e |-> e]
JDict(k, e) == [j |-> "dict", s |-> <<>>, n |-> 0, k |-> k, e |-> e]

\* str(n) for an int
RECURSIVE NatDigits(_)
NatDigits(n) ==
    IF n < 10 THEN <<48 + n>> ELSE NatDigits(n \div 10) \o <<48 + (n % 10)>>

IntDigits(n) == IF n < 0 THEN <<45>> \o NatDigits(0 - n) ELSE NatDigits(n)

\* json.encoder.py_encode_basestring: the escapes of ensure_ascii=False
JsonEscapeChar(c) ==
    CASE c = 34 -> <<92, 34>>
      [] c = 92 -> <<92, 92>>
      [] c = 10 -> <<92, 110>>
      [] c = 13 -> <<92, 114>>
      [] c = 9  -> <<92, 116>>
      [] OTHER -> <<c>>

JsonEscape(s) == Concat([i \in 1..Len(s) |-> JsonEscapeChar(s[i])])

JsonQuote(s) == <<34>> \o JsonEscape(s) \o <<34>>

\* '\n' + ' ' * (4 * level)
Spaces(n) == [i \in 1..n |-> 32]

NewlineIndent(level) == <<10>> \o Spaces(4 * level)

\* json.encoder: a key that is an int is written as the string of its digits
KeyText(a) == IF a.j = "str" THEN a.s ELSE IntDigits(a.n)

\* json.dumps(v, indent=4, ensure_ascii=False), at nesting depth level
RECURSIVE Dumps(_, _), DumpItems(_, _, _), DumpPairs(_, _, _, _)
Dumps(v, level) ==
    CASE v.j = "null" -> <<110, 117, 108, 108>>
      [] v.j = "str"  -> JsonQuote(v.s)
      [] v.j = "num"  -> IntDigits(v.n)
      [] v.j = "list" ->
            IF v.e = <<>> THEN <<91, 93>>
            ELSE <<91>> \o NewlineIndent(level + 1) \o DumpItems(v.e, 1, level + 1)
                        \o NewlineIndent(level) \o <<93>>
      [] v.j = "dict" ->
            IF v.k = <<>> THEN <<123, 125>>
            ELSE <<123>> \o NewlineIndent(level + 1) \o DumpPairs(v.k, v.e, 1, level + 1)
                         \o NewlineIndent(level) \o <<125>>

DumpItems(e, i, level) ==
    IF i > Len(e) THEN <<>>
    ELSE (IF i > 1 THEN <<44>> \o NewlineIndent(level) ELSE <<>>)
         \o Dumps(e[i], level) \o DumpItems(e, i + 1, level)

DumpPairs(k, e, i, level) ==
    IF i > Len(k) THEN <<>>
    ELSE (IF i > 1 THEN <<44>> \o NewlineIndent(level) ELSE <<>>)
         \o JsonQuote(KeyText(k[i])) \o <<58, 32>> \o Dumps(e[i], level)
         \o DumpPairs(k, e, i + 1, level)

\* json.decoder: whitespace is ' \t\n\r'
IsWs(c) == c \in {32, 9, 10, 13}

RECURSIVE SkipWs(_, _)
SkipWs(s, i) == IF i <= Len(s) /\ IsWs(s[i]) THEN SkipWs(s, i + 1) ELSE i

At(s, i) == IF i >= 1 /\ i <= Len(s) THEN s[i] ELSE -1

Fail == [ok |-> FALSE, v |-> JNull, i |-> 0]

\* json.decoder.py_scanstring (strict): from the character after the opening quote
RECURSIVE ScanString(_, _, _)
ScanString(s, i, acc) ==
    LET c == At(s, i) IN
    IF c = -1 THEN [ok |-> FALSE, v |-> <<>>, i |-> 0]
    ELSE IF c = 34 THEN [ok |-> TRUE, v |-> acc, i |-> i + 1]
    ELSE IF c = 92
    THEN LET d == At(s, i + 1) IN
         CASE d = 34  -> ScanString(s, i + 2, acc \o <<34>>)
           [] d = 92  -> ScanString(s, i + 2, acc \o <<92>>)
           [] d = 110 -> ScanString(s, i + 2, acc \o <<10>>)
           [] d = 114 -> ScanString(s, i + 2, acc \o <<13>>)
           [] d = 116 -> ScanString(s, i + 2, acc \o <<9>>)
           [] OTHER   -> [ok |-> FALSE, v |-> <<>>, i |-> 0]
    ELSE IF c < 32 THEN [ok |-> FALSE, v |-> <<>>, i |-> 0]
    ELSE ScanString(s, i + 1, acc \o <<c>>)

IsDigit(c) == c >= 48 /\ c <= 57

RECURSIVE ScanDigits(_, _, _)
ScanDigits(s, i, acc) ==
    IF IsDigit(At(s, i)) THEN ScanDigits(s, i + 1, acc * 10 + (s[i] - 48))
    ELSE [n |-> acc, i |-> i]

\* json.scanner NUMBER_RE, integers only: -?(0|[1-9]\d*)
ScanNumber(s, i) ==
    LET neg == At(s, i) = 45
        b == IF neg THEN i + 1 ELSE i
    IN  IF ~IsDigit(At(s, b)) THEN Fail
        ELSE LET r == IF s[b] = 48 THEN [n |-> 0, i |-> b + 1] ELSE ScanDigits(s, b, 0)
             IN  [ok |-> TRUE, v |-> JNum(IF neg THEN 0 - r.n ELSE r.n), i |-> r.i]

\* dict[key] = value: a repeated key keeps its place and takes the later value
DictPut(d, dkey, val) ==
    IF \E x \in 1..Len(d.k) : d.k[x] = dkey
    THEN JDict(d.k, [x \in 1..Len(d.k) |-> IF d.k[x] = dkey THEN val ELSE d.e[x]])
    ELSE JDict(Append(d.k, dkey), Append(d.e, val))

\* json.scanner.py_make_scanner._scan_once, JSONArray and JSONObject
RECURSIVE ScanOnce(_, _), ScanArray(_, _, _), ScanObject(_, _, _)
ScanOnce(s, i) ==
    LET c == At(s, i) IN
    CASE c = 34  -> LET r == ScanString(s, i + 1, <<>>)
                    IN  IF r.ok THEN [ok |-> TRUE, v |-> JStr(r.v), i |-> r.i] ELSE Fail
      [] c = 123 -> LET b == SkipWs(s, i + 1)
                    IN  IF At(s, b) = 125 THEN [ok |-> TRUE, v |-> JDict(<<>>, <<>>), i |-> b + 1]
                        ELSE ScanObject(s, b, JDict(<<>>, <<>>))
      [] c = 91  -> LET b == SkipWs(s, i + 1)
                    IN  IF At(s, b) = 93 THEN [ok |-> TRUE, v |-> JList(<<>>), i |-> b + 1]
                        ELSE ScanArray(s, b, <<>>)
      [] c = 110 -> IF SubSeq(s, i, i + 3) = <<110, 117, 108, 108>> /\ i + 3 <= Len(s)
                    THEN [ok |-> TRUE, v |-> JNull, i |-> i + 4] ELSE Fail
      [] c = 45 \/ IsDigit(c) -> ScanNumber(s, i)
      [] OTHER   -> Fail

\* i is at the start of the next element
ScanArray(s, i, acc) ==
    LET r == ScanOnce(s, i) IN
    IF ~r.ok THEN Fail
    ELSE LET b == SkipWs(s, r.i)
             c == At(s, b)
         IN  IF c = 93 THEN [ok |-> TRUE, v |-> JList(Append(acc, r.v)), i |-> b + 1]
             ELSE IF c = 44 THEN ScanArray(s, SkipWs(s, b + 1), Append(acc, r.v))
             ELSE Fail

\* i is at the opening quote of the next key
ScanObject(s, i, acc) ==
    IF At(s, i) # 34 THEN Fail
    ELSE LET kr == ScanString(s, i + 1, <<>>) IN
         IF ~kr.ok THEN Fail
         ELSE LET c1 == SkipWs(s, kr.i) IN
              IF At(s, c1) # 58 THEN Fail
              ELSE LET r == ScanOnce(s, SkipWs(s, c1 + 1)) IN
                   IF ~r.ok THEN Fail
                   ELSE LET b == SkipWs(s, r.i)
                            c == At(s, b)
                            d == DictPut(acc, JStr(kr.v), r.v)
                        IN  IF c = 125 THEN [ok |-> TRUE, v |-> d, i |-> b + 1]
                            ELSE IF c = 44 THEN ScanObject(s, SkipWs(s, b + 1), d)
                            ELSE Fail

\* json.loads(s): [ok |-> FALSE] stands for JSONDecodeError
Loads(s) ==
    LET r == ScanOnce(s, SkipWs(s, 1)) IN
    IF r.ok /\ SkipWs(s, r.i) = Len(s) + 1 THEN [ok |-> TRUE, v |-> r.v]
    ELSE [ok |-> FALSE, v |-> JNull]

\* repr() of a str: single quotes; the model's texts hold no single quote
ReprEscapeChar(c) ==
    CASE c = 92 -> <<92, 92>>
      [] c = 10 -> <<92, 110>>
      [] c = 13 -> <<92, 114>>
      [] c = 9  -> <<92, 116>>
      [] OTHER -> <<c>>

ReprEscape(s) == Concat([i \in 1..Len(s) |-> ReprEscapeChar(s[i])])

ReprQuote(s) == <<39>> \o ReprEscape(s) \o <<39>>

\* str(v) of a dict or list: Python's repr, not JSON
RECURSIVE Repr(_), ReprItems(_, _), ReprPairs(_, _, _)
Repr(v) ==
    CASE v.j = "null" -> <<78, 111, 110, 101>>
      [] v.j = "str"  -> ReprQuote(v.s)
      [] v.j = "num"  -> IntDigits(v.n)
      [] v.j = "list" -> <<91>> \o ReprItems(v.e, 1) \o <<93>>
      [] v.j = "dict" -> <<123>> \o ReprPairs(v.k, v.e, 1) \o <<125>>

ReprItems(e, i) ==
    IF i > Len(e) THEN <<>>
    ELSE (IF i > 1 THEN <<44, 32>> ELSE <<>>) \o Repr(e[i]) \o ReprItems(e, i + 1)

ReprPairs(k, e, i) ==
    IF i > Len(k) THEN <<>>
    ELSE (IF i > 1 THEN <<44, 32>> ELSE <<>>)
         \o Repr(k[i]) \o <<58, 32>> \o Repr(e[i]) \o ReprPairs(k, e, i + 1)

-----------------------------------------------------------------------------
(* Python values: arguments and results.  One record shape for all:        *)
(*   t = "bool"   b                                                        *)
(*       "str"    s (code points), or msg # "" for one of the code's       *)
(*                message strings (kept symbolic: the text alphabet of the *)
(*                model cannot spell them)                                 *)
(*       "bytes"  s (byte values)                                          *)
(*       "json"   j: a dict, a list, an int or None                        *)
(*       "list"   l1: the names listed (msg # "": the one-element list     *)
(*                holding an error message)                                *)
(*       "tuple"  l1, l2                                                   *)
(*       "dict"   found: the result map of search_files                    *)
(*       "raise"  msg: the exception that left the method                  *)

Ret0 ==
    [t |-> "none", b |-> FALSE, s |-> <<>>, j |-> JNull, msg |-> "",
     l1 |-> {}, l2 |-> {}, found |-> <<>>]

Bool(b) == [Ret0 EXCEPT !.t = "bool", !.b = b]
Text(s) == [Ret0 EXCEPT !.t = "str", !.s = s]
Bytes(s) == [Ret0 EXCEPT !.t = "bytes", !.s = s]
Json(j) == [Ret0 EXCEPT !.t = "json", !.j = j]
Msg(m) == [Ret0 EXCEPT !.t = "str", !.msg = m]
Raise(m) == [Ret0 EXCEPT !.t = "raise", !.msg = m]

\* what json.loads hands back: a JSON string is a str
FromJson(v) == IF v.j = "str" THEN Text(v.s) ELSE Json(v)

\* the value json.dumps is given
ToJson(c) == IF c.t = "str" THEN JStr(c.s) ELSE c.j

\* str(file_content) for a str, dict or list
Str(c) == IF c.t = "str" THEN c.s ELSE Repr(c.j)

-----------------------------------------------------------------------------
(* The file system.  An absolute path is the tuple of its components from   *)
(* "/"; <<>> is the directory that holds the storage roots.  D is the set   *)
(* of directories and F maps each regular file to its bytes.  A raw path    *)
(* is the tuple of the components of a path string, "", "." and ".."        *)
(* kept.                                                                    *)

\* str.split("/")
RECURSIVE SplitFrom(_, _, _)
SplitFrom(s, i, acc) ==
    IF i > Len(s) THEN <<acc>>
    ELSE IF s[i] = "/" THEN <<acc>> \o SplitFrom(s, i + 1, <<>>)
    ELSE SplitFrom(s, i + 1, Append(acc, s[i]))

Split(s) == SplitFrom(s, 1, <<>>)

\* os.path.join(base, name): an absolute name discards base
Join(base, name) ==
    IF StartsWith(name, <<"/">>) THEN Tail(Split(name)) ELSE base \o Split(name)

Front(p) == SubSeq(p, 1, Len(p) - 1)

RECURSIVE StripSlashes(_)
StripSlashes(raw) ==
    IF raw # <<>> /\ raw[Len(raw)] = <<>> THEN StripSlashes(Front(raw)) ELSE raw

\* os.path.dirname
Dirname(raw) == StripSlashes(Front(raw))

\* Path resolution: every component is looked up in a directory that exists.
RECURSIVE Walk(_, _, _, _)
Walk(D, cur, raw, i) ==
    IF i > Len(raw) THEN [ok |-> TRUE, path |-> cur]
    ELSE IF cur \notin D THEN [ok |-> FALSE, path |-> cur]
    ELSE IF raw[i] = <<>> \/ raw[i] = <<".">> THEN Walk(D, cur, raw, i + 1)
    ELSE IF raw[i] = <<".", ".">>
    THEN Walk(D, IF cur = <<>> THEN cur ELSE Front(cur), raw, i + 1)
    ELSE Walk(D, Append(cur, raw[i]), raw, i + 1)

Resolve(D, raw) == Walk(D, <<>>, raw, 1)

IsDir(D, raw) == LET r == Resolve(D, raw) IN r.ok /\ r.path \in D

IsFile(D, F, raw) == LET r == Resolve(D, raw) IN r.ok /\ r.path \in DOMAIN F

\* os.path.exists
Exists(D, F, raw) == IsDir(D, raw) \/ IsFile(D, F, raw)

IsPrefix(p, q) == Len(p) <= Len(q) /\ SubSeq(q, 1, Len(p)) = p

\* os.listdir(p) for a directory p: the names of its entries
ListDir(D, F, p) ==
    {q[Len(q)] : q \in {x \in D \cup DOMAIN F : Len(x) = Len(p) + 1 /\ IsPrefix(p, x)}}

\* os.mkdir(raw): creates the last component in an existing parent
Mkdir(D, F, raw) ==
    LET r == Resolve(D, raw)
        last == raw[Len(raw)]
    IN  IF raw # <<>> /\ r.ok /\ r.path \notin D /\ r.path \notin DOMAIN F
           /\ last \notin {<<>>, <<".">>, <<".", ".">>}
        THEN [ok |-> TRUE, D |-> D \cup {r.path}]
        ELSE [ok |-> FALSE, D |-> D]

\* os.makedirs(raw, exist_ok=True)
RECURSIVE MakeDirs(_, _, _)
MakeDirs(D, F, raw0) ==
    LET raw == StripSlashes(raw0) IN
    IF raw = <<>> THEN [ok |-> TRUE, D |-> D]
    ELSE LET head == Front(raw)
             tail == raw[Len(raw)]
             up == IF head # <<>> /\ ~Exists(D, F, head)
                   THEN MakeDirs(D, F, head) ELSE [ok |-> TRUE, D |-> D]
         IN  IF ~up.ok THEN up
             ELSE IF head # <<>> /\ ~Exists(D, F, head) /\ tail = <<".">> THEN up
             ELSE LET m == Mkdir(up.D, F, raw)
                  IN  IF m.ok \/ IsDir(up.D, raw) THEN [ok |-> TRUE, D |-> m.D]
                      ELSE [ok |-> FALSE, D |-> up.D]

\* open(raw, "w" / "wb") and f.write(data): creates or truncates a regular file
WriteFile(D, F, raw, data) ==
    LET r == Resolve(D, raw) IN
    IF r.ok /\ r.path \notin D
    THEN [ok |-> TRUE,
          F |-> [q \in DOMAIN F \cup {r.path} |-> IF q = r.path THEN data ELSE F[q]]]
    ELSE [ok |-> FALSE, F |-> F]

\* shutil.rmtree's effect below p, p itself left
RemoveBelow(S, p) == {q \in S : ~(IsPrefix(p, q) /\ q # p)}

Restrict(F, S) == [q \in S |-> F[q]]

-----------------------------------------------------------------------------
(* The storage manager.  A world w = [D, F, st, k] is the file system, the  *)
(* instance's storage_temp and the key its cipher is bound to.  Every       *)
(* method is an operator from a world and the arguments to the file system  *)
(* it leaves and the value it returns.                                      *)

\* self.storage_data: FLET_APP_STORAGE_DATA, or the working directory
DataRoot == << <<"d">> >>

\* self.storage_temp when FLET_APP_STORAGE_TEMP is set
TempEnv == << <<"t">> >>

\* self.storage_temp otherwise: os.path.join(self.storage_data, "temp")
TempDefault == DataRoot \o << <<"t", "e", "m", "p">> >>

DotKey == <<".", "k", "e", "y">>

DotJson == <<".", "j", "s", "o", "n">>

\* the suffixes read_file opens in binary mode
BinarySuffixes ==
    { <<".", "p", "n", "g">>, <<".", "j", "p", "g">>, <<".", "j", "p", "e", "g">>,
      <<".", "b", "m", "p">>, <<".", "g", "i", "f">>,
      <<".", "m", "p", "3">>, <<".", "w", "a", "v">>, <<".", "o", "g", "g">>,
      <<".", "f", "l", "a", "c">>,
      <<".", "p", "d", "f">>, <<".", "c", "s", "v">>, <<".", "z", "i", "p">>,
      <<".", "b", "i", "n">> }

Digit == <<"1", "2", "3", "4", "5", "6", "7", "8", "9">>

\* f"{uuid.uuid4()}.key": the n-th name generated
KeyName(n) == <<"u", Digit[n]>> \o DotKey

World == [D |-> dirs, F |-> files, st |-> storage_temp, k |-> key]

Base(w, temp) == IF temp THEN w.st ELSE DataRoot

\* _get_path
GetPath(w, file_name, temp) == Join(Base(w, temp), file_name)

Out(D, F, r) == [D |-> D, F |-> F, ret |-> r]

\* Payload with str() where json.dumps belongs
PayloadRepr(k, file_name, file_content, encrypt) ==
    IF encrypt
    THEN Marker \o Encrypt(k, IF file_content.t = "bytes" THEN file_content.s
                              ELSE Utf8Encode(Str(file_content)))
    ELSE IF file_content.t = "bytes" THEN file_content.s
    ELSE Utf8Encode(Str(file_content))

\* save_file, lines 95-118: the bytes that reach the disk
Payload(k, file_name, file_content, encrypt) ==
    IF encrypt
    THEN Marker \o Encrypt(k, IF file_content.t = "bytes" THEN file_content.s
                              ELSE Utf8Encode(Str(file_content)))
    ELSE IF file_content.t = "bytes" THEN file_content.s
    ELSE IF file_content.t = "json" \/ EndsWith(file_name, DotJson)
    THEN Utf8Encode(Dumps(ToJson(file_content), 0))
    ELSE Utf8Encode(Str(file_content))

\* SaveFile without the overwrite check
SaveFileNoGuard(w, file_name, file_content, temp, overwrite, encrypt) ==
    LET full_path == Join(Base(w, temp), file_name)
        dir_path == Dirname(full_path)
        mk == IF ~Exists(w.D, w.F, dir_path) THEN MakeDirs(w.D, w.F, dir_path)
              ELSE [ok |-> TRUE, D |-> w.D]
    IN  IF ~mk.ok THEN Out(mk.D, w.F, Msg("Error saving file"))
        ELSE LET wr == WriteFile(mk.D, w.F, full_path,
                                 Payload(w.k, file_name, file_content, encrypt))
             IN  IF wr.ok THEN Out(mk.D, wr.F, Bool(TRUE))
                 ELSE Out(mk.D, w.F, Msg("Error saving file"))

SaveFile(w, file_name, file_content, temp, overwrite, encrypt) ==
    LET full_path == Join(Base(w, temp), file_name)
        dir_path == Dirname(full_path)
        mk == IF ~Exists(w.D, w.F, dir_path) THEN MakeDirs(w.D, w.F, dir_path)
              ELSE [ok |-> TRUE, D |-> w.D]
    IN  IF ~mk.ok THEN Out(mk.D, w.F, Msg("Error saving file"))
        ELSE IF Exists(mk.D, w.F, full_path) /\ ~overwrite
        THEN Out(mk.D, w.F, Msg("File already exists."))
        ELSE LET wr == WriteFile(mk.D, w.F, full_path,
                                 Payload(w.k, file_name, file_content, encrypt))
             IN  IF wr.ok THEN Out(mk.D, wr.F, Bool(TRUE))
                 ELSE Out(mk.D, w.F, Msg("Error saving file"))

\* read_file, lines 163-178: what is made of the data read
Decode(k, file_name, is_binary, raw) ==
    IF is_binary
    THEN IF StartsWith(raw, Marker)
         THEN LET d == Decrypt(k, SubSeq(raw, 4, Len(raw)))
              IN  IF d.ok THEN Bytes(d.data) ELSE Msg("Error reading file")
         ELSE Bytes(raw)
    ELSE LET u == Utf8Decode(raw)
             data == UniversalNewlines(u.s)
         IN  IF ~u.ok THEN Msg("Error reading file")
             ELSE IF StartsWith(data, Marker)
             THEN LET d == Decrypt(k, Utf8Encode(SubSeq(data, 4, Len(data))))
                      p == Utf8Decode(d.data)
                  IN  IF d.ok /\ p.ok THEN Text(p.s) ELSE Msg("Error reading file")
             ELSE IF EndsWith(file_name, DotJson)
             THEN LET v == Loads(data)
                  IN  IF v.ok THEN FromJson(v.v) ELSE Msg("Error reading file")
             ELSE Text(data)

\* read_file, lines 147-153: file_name.lower().endswith((...))
IsBinaryName(file_name) ==
    \E suf \in BinarySuffixes : EndsWith(Lower(file_name), suf)

ReadFile(w, file_name, temp) ==
    LET file_path == GetPath(w, file_name, temp)
        is_binary == IsBinaryName(file_name)
    IN  IF ~Exists(w.D, w.F, file_path) THEN Out(w.D, w.F, Msg("File not found"))
        ELSE IF ~IsFile(w.D, w.F, file_path) THEN Out(w.D, w.F, Msg("Error reading file"))
        ELSE Out(w.D, w.F,
                 Decode(w.k, file_name, is_binary, w.F[Resolve(w.D, file_path).path]))

DeleteFile(w, file_name, temp) ==
    LET file_path == GetPath(w, file_name, temp) IN
    IF ~Exists(w.D, w.F, file_path) THEN Out(w.D, w.F, Msg("File not found"))
    ELSE IF IsFile(w.D, w.F, file_path)
    THEN Out(w.D, Restrict(w.F, DOMAIN w.F \ {Resolve(w.D, file_path).path}),
             Msg("Deleted"))
    ELSE Out(w.D, w.F, Msg("Error deleting file"))

NotKey(names) == {f \in names : ~EndsWith(f, DotKey)}

ListFiles(w, temp, list_both_directories, show_details) ==
    IF DataRoot \notin w.D \/ w.st \notin w.D
    THEN Out(w.D, w.F, [Msg("Error listing files") EXCEPT !.t = "list"])
    ELSE LET data_storage_content == ListDir(w.D, w.F, DataRoot)
             temp_storage_content == NotKey(ListDir(w.D, w.F, w.st))
         IN  IF ~list_both_directories
             THEN Out(w.D, w.F, [Ret0 EXCEPT !.t = "list",
                                             !.l1 = NotKey(ListDir(w.D, w.F, Base(w, temp)))])
             ELSE IF show_details
             THEN Out(w.D, w.F, [Msg("Data Storage / Temp Storage") EXCEPT
                                     !.l1 = data_storage_content,
                                     !.l2 = temp_storage_content])
             ELSE Out(w.D, w.F, [Ret0 EXCEPT !.t = "tuple",
                                             !.l1 = data_storage_content,
                                             !.l2 = temp_storage_content])

FileExists(w, file_name, temp) ==
    Out(w.D, w.F, Bool(Exists(w.D, w.F, GetPath(w, file_name, temp))))

EditFile(w, file_name, new_content, temp, encrypt) ==
    IF ~FileExists(w, file_name, temp).ret.b THEN Out(w.D, w.F, Msg("File not found"))
    ELSE SaveFile(w, file_name, new_content, temp, TRUE, encrypt)

\* clear_storage.  os.listdir gives the entries in no particular order and
\* os.remove raises on the first directory it is given: the files removed before
\* that are any of the files.
ClearStorage(w, temp) ==
    LET base_path == Base(w, temp) IN
    IF base_path \notin w.D THEN {Out(w.D, w.F, Msg("Error clearing storage"))}
    ELSE LET targets == {Append(base_path, f) : f \in NotKey(ListDir(w.D, w.F, base_path))}
             fileTargets == targets \cap DOMAIN w.F
         IN  IF targets \subseteq DOMAIN w.F
             THEN {Out(w.D, Restrict(w.F, DOMAIN w.F \ targets), Msg("Cleared storage"))}
             ELSE {Out(w.D, Restrict(w.F, DOMAIN w.F \ gone), Msg("Error clearing storage")) :
                       gone \in SUBSET fileTargets}

\* delete_folder.  shutil.rmtree empties the directory and then removes it by
\* the path it was given, which fails for "/", for a path ending in "." and
\* for one ending in ".." (the directory it went through is gone).
DeleteFolder(w, dir_name, temp) ==
    LET folder_path == Join(Base(w, temp), dir_name)
        r == Resolve(w.D, folder_path)
        last == StripSlashes(folder_path)
        D1 == RemoveBelow(w.D, r.path)
        F1 == Restrict(w.F, RemoveBelow(DOMAIN w.F, r.path))
    IN  IF ~Exists(w.D, w.F, folder_path) THEN Out(w.D, w.F, Msg("does not exist"))
        ELSE IF ~IsDir(w.D, folder_path) THEN Out(w.D, w.F, Msg("is not a folder"))
        ELSE IF r.path # <<>> /\ last[Len(last)] \notin {<<".">>, <<".", ".">>}
        THEN Out(D1 \ {r.path}, F1, Msg("deleted successfully"))
        ELSE Out(D1, F1, Msg("Error deleting folder"))

\* how many times name occurs in the list file_names
Occurrences(file_names, name) ==
    Cardinality({i \in 1..Len(file_names) : file_names[i] = name})

\* the regular files os.walk(base_path) visits
WalkFiles(w, base_path) ==
    IF base_path \in w.D THEN {q \in DOMAIN w.F : IsPrefix(base_path, q)} ELSE {}

\* search_files.  A result list is kept as a bag: path -> how many times it
\* is listed (the order of os.listdir is not modelled).
SearchFiles(w, file_names, temp, search_in_any_folders) ==
    LET base_path == Base(w, temp)
        keys == {file_names[i] : i \in 1..Len(file_names)}
        scanned == IF search_in_any_folders THEN WalkFiles(w, base_path)
                   ELSE {Append(base_path, f) : f \in ListDir(w.D, w.F, base_path)}
        hits(name) == {q \in scanned : Contains(Lower(q[Len(q)]), Lower(name))}
    IN  IF ~search_in_any_folders /\ base_path \notin w.D
        THEN Out(w.D, w.F, Raise("FileNotFoundError"))
        ELSE Out(w.D, w.F,
                 [Ret0 EXCEPT !.t = "dict",
                              !.found = [name \in keys |->
                                  [not_found |-> hits(name) = {},
                                   paths |-> [q \in hits(name) |->
                                                 Occurrences(file_names, name)]]]])

\* __init__.  existing_keys[0] is whichever key file os.listdir gives first.
\* A result is the file system left, the instance's key, and either the
\* instance ("FileSystem") or the exception that ended the construction.
Construct(w, n) ==
    LET md == MakeDirs(w.D, w.F, DataRoot)
        mt == MakeDirs(md.D, w.F, w.st)
        existing_keys == {f \in ListDir(mt.D, w.F, w.st) : EndsWith(f, DotKey)}
        made == [Ret0 EXCEPT !.t = "FileSystem"]
        res(D, F, k, m, r) == [D |-> D, F |-> F, k |-> k, n |-> m, ret |-> r]
    IN  IF ~md.ok THEN {res(md.D, w.F, w.k, n, Raise("OSError"))}
        ELSE IF ~mt.ok THEN {res(mt.D, w.F, w.k, n, Raise("OSError"))}
        ELSE IF existing_keys # {}
        THEN {LET key_path == Append(w.st, f) IN
              IF key_path \notin DOMAIN w.F
              THEN res(mt.D, w.F, w.k, n, Raise("IsADirectoryError"))
              ELSE IF ~ValidKey(w.F[key_path])
              THEN res(mt.D, w.F, w.k, n, Raise("ValueError"))
              ELSE res(mt.D, w.F, KeyOf(w.F[key_path]), n, made)
                  : f \in existing_keys}
        ELSE {res(mt.D,
                  WriteFile(mt.D, w.F, Append(w.st, KeyName(n + 1)), KeyBytes(n + 1)).F,
                  n + 1, n + 1, made)}

-----------------------------------------------------------------------------
(* The state machine: one action per public method, and the construction   *)
(* of a further instance on the same roots.                                *)

\* at most this many calls in a run
MaxOps == 2

\* at most this many keys are ever generated
MaxKeys == 2

Op0 ==
    [f |-> "", file_name |-> <<>>, file_content |-> Ret0, temp |-> FALSE,
     overwrite |-> FALSE, encrypt |-> FALSE, list_both_directories |-> FALSE,
     show_details |-> FALSE, dir_name |-> <<>>, file_names |-> <<>>,
     search_in_any_folders |-> FALSE]

Saved0 ==
    [on |-> FALSE, file_name |-> <<>>, file_content |-> Ret0, temp |-> FALSE,
     encrypt |-> FALSE]

\* a file outside both roots
Outside == << <<"o">> >>

\* The state the first construction leaves in a fresh environment: both
\* roots created, one key generated and written into the transient root.
Init ==
    /\ storage_temp \in {TempEnv, TempDefault}
    /\ dirs = {<<>>, DataRoot, storage_temp}
    /\ files = [q \in {Outside, Append(storage_temp, KeyName(1))} |->
                    IF q = Outside THEN <<111>> ELSE KeyBytes(1)]
    /\ key = 1
    /\ key0 = 1
    /\ nkeys = 1
    /\ nops = 0
    /\ op = Op0
    /\ ret = Ret0
    /\ saved = Saved0

\* a call o of a method that leaves the file system out.D, out.F and returns out.ret
Call(o, out) ==
    /\ nops < MaxOps
    /\ nops' = nops + 1
    /\ op' = o
    /\ dirs' = out.D
    /\ files' = out.F
    /\ ret' = out.ret
    /\ saved' = IF o.f = "save_file" /\ out.ret = Bool(TRUE)
                THEN [on |-> TRUE, file_name |-> o.file_name,
                      file_content |-> o.file_content, temp |-> o.temp,
                      encrypt |-> o.encrypt]
                ELSE IF out.D = dirs /\ out.F = files THEN saved
                ELSE Saved0
    /\ UNCHANGED <<storage_temp, key, key0, nkeys>>

save_file(N, C) ==
    \E file_name \in N, file_content \in C, temp \in BOOLEAN,
       overwrite \in BOOLEAN, encrypt \in BOOLEAN :
        Call([Op0 EXCEPT !.f = "save_file", !.file_name = file_name,
                         !.file_content = file_content, !.temp = temp,
                         !.overwrite = overwrite, !.encrypt = encrypt],
             SaveFile(World, file_name, file_content, temp, overwrite, encrypt))

read_file(N) ==
    \E file_name \in N, temp \in BOOLEAN :
        Call([Op0 EXCEPT !.f = "read_file", !.file_name = file_name, !.temp = temp],
             ReadFile(World, file_name, temp))

delete_file(N) ==
    \E file_name \in N, temp \in BOOLEAN :
        Call([Op0 EXCEPT !.f = "delete_file", !.file_name = file_name, !.temp = temp],
             DeleteFile(World, file_name, temp))

list_files ==
    \E temp \in BOOLEAN, list_both_directories \in BOOLEAN, show_details \in BOOLEAN :
        Call([Op0 EXCEPT !.f = "list_files", !.temp = temp,
                         !.list_both_directories = list_both_directories,
                         !.show_details = show_details],
             ListFiles(World, temp, list_both_directories, show_details))

file_exists(N) ==
    \E file_name \in N, temp \in BOOLEAN :
        Call([Op0 EXCEPT !.f = "file_exists", !.file_name = file_name, !.temp = temp],
             FileExists(World, file_name, temp))

\* new_content is recorded in op.file_content
edit_file(N, C) ==
    \E file_name \in N, new_content \in C, temp \in BOOLEAN, encrypt \in BOOLEAN :
        Call([Op0 EXCEPT !.f = "edit_file", !.file_name = file_name,
                         !.file_content = new_content, !.temp = temp,
                         !.encrypt = encrypt],
             EditFile(World, file_name, new_content, temp, encrypt))

clear_storage ==
    \E temp \in BOOLEAN :
        \E out \in ClearStorage(World, temp) :
            Call([Op0 EXCEPT !.f = "clear_storage", !.temp = temp], out)

delete_folder(N) ==
    \E dir_name \in N, temp \in BOOLEAN :
        Call([Op0 EXCEPT !.f = "delete_folder", !.dir_name = dir_name, !.temp = temp],
             DeleteFolder(World, dir_name, temp))

search_files(L) ==
    \E file_names \in L, temp \in BOOLEAN, search_in_any_folders \in BOOLEAN :
        Call([Op0 EXCEPT !.f = "search_files", !.file_names = file_names,
                         !.temp = temp,
                         !.search_in_any_folders = search_in_any_folders],
             SearchFiles(World, file_names, temp, search_in_any_folders))

\* FileSystem() again, on the same roots: the new instance replaces the live one
__init__ ==
    /\ nops < MaxOps
    /\ \E out \in Construct(World, nkeys) :
        /\ out.n <= MaxKeys
        /\ nops' = nops + 1
        /\ op' = [Op0 EXCEPT !.f = "__init__"]
        /\ dirs' = out.D
        /\ files' = out.F
        /\ key' = out.k
        /\ nkeys' = out.n
        /\ ret' = out.ret
        /\ saved' = Saved0
        /\ UNCHANGED <<storage_temp, key0>>

-----------------------------------------------------------------------------
(* Inputs.                                                                 *)

a_txt == <<"a", ".", "t", "x", "t">>

\* a nested name: save_file creates the folder s
s_b_txt == <<"s", "/", "B", ".", "t", "x", "t">>

\* a name that goes through a folder and back
n_up_a_txt == <<"n", "/", ".", ".", "/">> \o a_txt

x_key == <<"x">> \o DotKey

FileNames == {a_txt, s_b_txt, n_up_a_txt, x_key, KeyName(1), <<"s">>, <<>>}

DirNames ==
    {<<"s">>, <<>>, <<".">>, <<".", ".">>, <<"t", "e", "m", "p">>, a_txt}

Contents == {Text(<<97>>), Bytes(<<255>>)}

SearchLists ==
    { << <<"a">> >>, << <<"b">>, <<"b">> >>, << <<"T", "X", "T">>, <<"z">> >>,
      << <<"s">> >>, << DotKey >> }

Next ==
    \/ save_file(FileNames, Contents)
    \/ read_file(FileNames)
    \/ delete_file(FileNames)
    \/ list_files
    \/ file_exists(FileNames)
    \/ edit_file(FileNames, Contents)
    \/ clear_storage
    \/ delete_folder(DirNames)
    \/ search_files(SearchLists)
    \/ __init__

Spec == Init /\ [][Next]_vars

-----------------------------------------------------------------------------
(* The round trips: saving and reading back, with contents of every kind.  *)

\* a nested name with the JSON suffix
s_d_json == <<"s", "/", "d">> \o DotJson

\* a name with a binary suffix, in upper case
b_BIN == <<"b", ".", "B", "I", "N">>

RTNames == {a_txt, s_d_json, b_BIN}

\* {"a": [12, "é\r", None, {}], "k\"": [-3, []]}
V1 ==
    JDict(<<JStr(<<97>>), JStr(<<107, 34>>)>>,
          <<JList(<<JNum(12), JStr(<<233, 13>>), JNull, JDict(<<>>, <<>>)>>),
            JList(<<JNum(-3), JList(<<>>)>>)>>)

\* {1: "a"}: a dict with an int key
V2 == JDict(<<JNum(1)>>, <<JStr(<<97>>)>>)

RTContents ==
    { Text(<<233, 34>>),             \* 'é"'
      Text(<<69, 58, 58, 97>>),      \* 'E::a'
      Bytes(<<255>>),                \* b'\xff'
      Json(V1), Json(V2) }

InitRT == Init /\ storage_temp = TempEnv

NextRT ==
    \/ save_file(RTNames, RTContents)
    \/ read_file(RTNames)
    \/ delete_file(RTNames)

SpecRT == InitRT /\ [][NextRT]_vars

-----------------------------------------------------------------------------
(* Saving over what is there: names that exist as files and as folders,    *)
(* and the operations that create and remove them.                         *)

GuardNames == {a_txt, s_b_txt, n_up_a_txt, <<"s">>}

GuardDirs == {<<"s">>, <<"n">>}

NextGuard ==
    \/ save_file(GuardNames, Contents)
    \/ edit_file(GuardNames, Contents)
    \/ read_file(GuardNames)
    \/ delete_file(GuardNames)
    \/ delete_folder(GuardDirs)

SpecGuard == InitRT /\ [][NextGuard]_vars


-----------------------------------------------------------------------------
(* Properties.                                                             *)

World1 == [D |-> dirs', F |-> files', st |-> storage_temp', k |-> key']

\* the bytes on disk of the file a name stands for
OnDisk(file_name, temp) == files[Resolve(dirs, GetPath(World, file_name, temp)).path]

\* the last call read the file that the last successful save wrote
ReadBack == 
    /\ op.f = "read_file"
    /\ saved.on
    /\ op.file_name = saved.file_name
    /\ op.temp = saved.temp

\* C1: a text T saved with success is what the next read of that name
\* returns, exactly, whatever the name; saved with encrypt=True, the read
\* returns T all the same and the bytes on disk begin with "E::".
C1_TextRoundTrip ==
    (ReadBack /\ saved.file_content.t = "str") =>
        /\ ret = Text(saved.file_content.s)
        /\ saved.encrypt => StartsWith(OnDisk(saved.file_name, saved.temp), Marker)

RECURSIVE StringKeyed(_)
StringKeyed(v) ==
    /\ \A i \in 1..Len(v.k) : v.k[i].j = "str"
    /\ \A i \in 1..Len(v.e) : StringKeyed(v.e[i])

\* the last call read a .json file that a save of a dict or list, encrypt
\* left at its default, wrote
StructuredReadBack ==
    /\ ReadBack
    /\ saved.file_content.t = "json"
    /\ saved.file_content.j.j \in {"dict", "list"}
    /\ EndsWith(saved.file_name, DotJson)
    /\ ~saved.encrypt

\* C2 as stated: every dict or list that save_file accepts under a .json name
\* is read back as a value equal to it.
C2_StructuredRoundTrip ==
    StructuredReadBack => ret = Json(saved.file_content.j)

\* C2, amended: a dict or list whose dicts all have str keys, saved with
\* success under a .json name, is read back as a value equal to it (a
\* structured value, not its text).
C2_StringKeyedRoundTrip ==
    (StructuredReadBack /\ StringKeyed(saved.file_content.j)) =>
        ret = Json(saved.file_content.j)

\* a nested dict with str keys, escapes and non-ASCII text has been saved
\* under s/d.json and read back as that dict
C2_Witness ==
    /\ StructuredReadBack
    /\ saved.file_name = s_d_json
    /\ saved.file_content = Json(V1)
    /\ ret = Json(V1)

\* C3: save_file with overwrite=False on a name at which something exists
\* returns "File already exists." and changes nothing: not the file system,
\* not what a read of that name returns.
C3_NonOverwriteGuard ==
    [][(/\ op'.f = "save_file"
        /\ ~op'.overwrite
        /\ Exists(dirs, files, GetPath(World, op'.file_name, op'.temp)))
       => /\ ret' = Msg("File already exists.")
          /\ dirs' = dirs
          /\ files' = files
          /\ key' = key
          /\ ReadFile(World1, op'.file_name, op'.temp).ret
                = ReadFile(World, op'.file_name, op'.temp).ret]_vars

\* a save without overwrite has been refused, and the file holds something
\* else than the call would have written
C3_Witness ==
    /\ op.f = "save_file"
    /\ ~op.overwrite
    /\ ret = Msg("File already exists.")
    /\ IsFile(dirs, files, GetPath(World, op.file_name, op.temp))
    /\ OnDisk(op.file_name, op.temp)
          # Payload(key, op.file_name, op.file_content, op.encrypt)

\* the key file the first construction wrote
KeyPath0 == Append(storage_temp, KeyName(1))

\* C4: no sequence of public operations changes or deletes the key, and a
\* later construction on the same transient root succeeds and loads the key
\* of the first.
C4_KeyPersistence ==
    /\ KeyPath0 \in DOMAIN files
    /\ files[KeyPath0] = KeyBytes(key0)
    /\ op.f = "__init__" => (ret.t = "FileSystem" /\ key = key0)

Below(S, p) == {q \in S : IsPrefix(p, q)}

\* C5: after clear_storage the selected root holds nothing but key files,
\* the key files it held are there unchanged, the other root is unchanged
\* and the cipher is the same.
C5_Clear ==
    [][op'.f = "clear_storage" =>
        LET sel == Base(World, op'.temp)
            oth == Base(World, ~op'.temp)
        IN  /\ NotKey(ListDir(dirs', files', sel)) = {}
            /\ \A f \in ListDir(dirs, files, sel) :
                   EndsWith(f, DotKey) =>
                       LET q == Append(sel, f) IN
                       /\ q \in dirs => q \in dirs'
                       /\ q \in DOMAIN files =>
                              (q \in DOMAIN files' /\ files'[q] = files[q])
            /\ Below(dirs', oth) = Below(dirs, oth)
            /\ Restrict(files', Below(DOMAIN files', oth))
                 = Restrict(files, Below(DOMAIN files, oth))
            /\ key' = key]_vars

\* C6: whatever the folder name, delete_folder removes nothing but entries
\* strictly inside the selected root that belong to the named folder, and
\* changes no file; the other root is untouched; and after any operation
\* both roots exist.
C6_FolderDeletionScope ==
    [][/\ op'.f = "delete_folder" =>
            LET sel == Base(World, op'.temp)
                oth == Base(World, ~op'.temp)
                named == Resolve(dirs, Join(sel, op'.dir_name)).path
                inside(q) == /\ IsPrefix(sel, q) /\ q # sel
                             /\ IsPrefix(named, q)
                             /\ ~IsPrefix(oth, q)
            IN  /\ \A q \in dirs \ dirs' : inside(q)
                /\ \A q \in DOMAIN files \ DOMAIN files' : inside(q)
                /\ \A q \in DOMAIN files \cap DOMAIN files' : files'[q] = files[q]
       /\ DataRoot \in dirs'
       /\ storage_temp' \in dirs']_vars

\* C7: a public method returns its payload or an error string: nothing is
\* raised, and an error message comes as a str and in no other shape.
C7_StringOrSuccess ==
    op.f \notin {"", "__init__"} =>
        /\ ret.t # "raise"
        /\ ret.msg # "" => ret.t = "str"

\* the regular files search_files is to look at
SearchScope(temp, search_in_any_folders) ==
    LET base_path == Base(World, temp) IN
    {q \in DOMAIN files :
        /\ IsPrefix(base_path, q)
        /\ q # base_path
        /\ search_in_any_folders \/ Len(q) = Len(base_path) + 1}

\* C8: search_files maps every fragment asked for to the paths of exactly
\* the files whose name contains it, case ignored, each once, or to "File
\* Not Found" when there is none.
C8_SearchCorrectness ==
    op.f = "search_files" =>
        /\ ret.t = "dict"
        /\ \A i \in 1..Len(op.file_names) :
              LET name == op.file_names[i]
                  expected == {q \in SearchScope(op.temp, op.search_in_any_folders) :
                                  Contains(Lower(q[Len(q)]), Lower(name))}
              IN  /\ name \in DOMAIN ret.found
                  /\ ret.found[name].not_found = (expected = {})
                  /\ DOMAIN ret.found[name].paths = expected
                  /\ \A q \in expected : ret.found[name].paths[q] = 1

\* C9: a listing of the persistent root gives every entry, key suffix or
\* not; a listing of the transient root leaves out the names with the key
\* suffix; for the single list and for either half of the pair.
C9_ListingFilter ==
    (op.f = "list_files" /\ ret.msg # "Error listing files") =>
        IF op.list_both_directories
        THEN /\ ret.l1 = ListDir(dirs, files, DataRoot)
             /\ ret.l2 = NotKey(ListDir(dirs, files, storage_temp))
        ELSE IF op.temp
        THEN ret.l1 = NotKey(ListDir(dirs, files, storage_temp))
        ELSE ret.l1 = ListDir(dirs, files, DataRoot)

\* what read_file makes of the file that save_file, encrypt=False, writes
\* for this name and content
PlainRead(file_name, file_content) ==
    Decode(key, file_name, IsBinaryName(file_name),
           Payload(key, file_name, file_content, FALSE))

\* C10: where a content saved without encryption is read back as R with no
\* error, the same content saved under the same name with encrypt=True is
\* read back as R too.
C10_EncryptionTransparent ==
    (ReadBack /\ saved.encrypt) =>
        LET R == PlainRead(saved.file_name, saved.file_content)
        IN  R.msg = "" => ret = R

=============================================================================
